---- MODULE Spec2Model ----
\* A model of the IQS231x I2C driver (src/src/iqs231x.rs, src/src/error.rs):
\* the driver value (bound address + owned transport handle), its constructors,
\* address management, release of the transport and the product_number register
\* read in its blocking and its async form.
EXTENDS Integers, Sequences, FiniteSets, TLC

\* ---------------------------------------------------------------- bounds
\* Most transactions one transport handle records in the single-driver system.
MaxCalls == 3
\* Most calls of the call sequence replayed on the blocking/async pair.
MaxPairCalls == 3

\* ------------------------------------------------------- program constants
\* pub const DEFAULT_ADDR: SevenBitAddress = 0x44;
DEFAULT_ADDR == 68
\* const PRODUCT_NUMBER_REG: u8 = 0x00;
PRODUCT_NUMBER_REG == 0

\* SevenBitAddress is an alias of u8: the values an address argument can take.
U8 == 0..255

\* ------------------------------------------------------------ input sets
\* Address arguments tried: 0x45 (the documented custom address), 0x7F (largest
\* 7-bit value), 0x80 (smallest u8 that is not a 7-bit value).
AddrInputs == {69, 127, 128}
\* Bytes a device may answer with.
ByteInputs == {0, 64}
\* Transport error values (the transport's own error type E).
Errors == {"NoAcknowledge", "ArbitrationLoss"}
\* Transport handles the caller may own.
HandleIds == {1, 2}

\* What the transport does with one write_read whose read buffer has n bytes:
\* success with the buffer filled, or failure with error err and the buffer
\* left untouched or partly written.
ReplySet(n) ==
    {[ok |-> TRUE, buf |-> b, err |-> "none"] : b \in [1..n -> ByteInputs]}
    \cup {[ok |-> FALSE, buf |-> b, err |-> e] :
             b \in {[i \in 1..n |-> 0], [i \in 1..n |-> 64]}, e \in Errors}

NoReply == [ok |-> FALSE, buf |-> <<>>, err |-> "no transaction"]

\* ------------------------------------------------------------------ values
NoDriver == [none |-> "driver"]
NoHandle == [none |-> "handle"]
NoFuture == [none |-> "future"]
\* "No address": one past the largest u8.
NoAddr == 255 + 1

Ok(v) == [kind |-> "Ok", val |-> v]
Err(e) == [kind |-> "Err", err |-> e]
Value(v) == [kind |-> "u8", val |-> v]
Unit == [kind |-> "unit"]
Pending == [kind |-> "pending"]

\* Faulty variant of From: every transport error is reported as one fixed error.
From_lossy(value) == [variant |-> "I2CError", value |-> "NoAcknowledge"]

\* impl<E> From<E> for Iqs231xError<E>: wraps the transport error.
From(value) == [variant |-> "I2CError", value |-> value]

\* ------------------------------------------------------------ the transport
\* The transport observes the addressed write-then-read transaction.
write_read_begin(i2c, addr, write, read) ==
    [i2c EXCEPT !.log = Append(@, [address |-> addr, write |-> write,
                                   read_len |-> Len(read)])]

\* The transport finishes the transaction: Ok(()) with the read buffer filled,
\* or Err(e).
write_read_end(read, reply) ==
    IF reply.ok THEN [res |-> Ok(Unit), read |-> reply.buf]
    ELSE [res |-> Err(reply.err), read |-> reply.buf]

\* --------------------------------------------------------------- the driver
new(i2c) == [address |-> DEFAULT_ADDR, i2c |-> i2c]

with_address(i2c, addr) == [address |-> addr, i2c |-> i2c]

\* Faulty variant of set_address: the argument is masked to seven bits.
set_address_masked(self, addr) == [self EXCEPT !.address = addr % 128]

\* Faulty variant of set_address: the 8-bit bus address (shifted left by the
\* read/write bit) is stored instead of the 7-bit one.
set_address_shifted(self, addr) == [self EXCEPT !.address = (addr * 2) % 256]

\* Faulty variant of set_address: the new address is probed on the bus.
set_address_probing(self, addr) ==
    [address |-> addr,
     i2c |-> write_read_begin(self.i2c, addr, <<PRODUCT_NUMBER_REG>>, <<0, 0>>)]

set_address(self, addr) == [self EXCEPT !.address = addr]

address(self) == self.address

\* Faulty variant of release_inner: hands back a re-initialised transport.
release_inner_reset(self) == [self.i2c EXCEPT !.log = <<>>]

release_inner(self) == self.i2c

\* Faulty variant of product_number: always addresses the default device.
product_number_default_target(self, reply) ==
    LET results == <<0, 0>>
        i2c1 == write_read_begin(self.i2c, DEFAULT_ADDR,
                                 <<PRODUCT_NUMBER_REG>>, results)
        done == write_read_end(results, reply)
        self1 == [self EXCEPT !.i2c = i2c1]
    IN  IF done.res.kind = "Err"
        THEN [self |-> self1, ret |-> Err(From(done.res.err))]
        ELSE [self |-> self1, ret |-> Ok(done.read[2])]

\* Faulty variant of product_number: returns results[0].
product_number_first_byte(self, reply) ==
    LET results == <<0, 0>>
        i2c1 == write_read_begin(self.i2c, self.address,
                                 <<PRODUCT_NUMBER_REG>>, results)
        done == write_read_end(results, reply)
        self1 == [self EXCEPT !.i2c = i2c1]
    IN  IF done.res.kind = "Err"
        THEN [self |-> self1, ret |-> Err(From(done.res.err))]
        ELSE [self |-> self1, ret |-> Ok(done.read[1])]

\* Faulty variant of product_number: a failed transaction is tried once more
\* (the transport answers the second attempt the same way).
product_number_retry(self, reply) ==
    LET results == <<0, 0>>
        i2c1 == write_read_begin(self.i2c, self.address,
                                 <<PRODUCT_NUMBER_REG>>, results)
        done == write_read_end(results, reply)
        i2c2 == write_read_begin(i2c1, self.address,
                                 <<PRODUCT_NUMBER_REG>>, results)
    IN  IF done.res.kind = "Err"
        THEN [self |-> [self EXCEPT !.i2c = i2c2],
              ret |-> Err(From(done.res.err))]
        ELSE [self |-> [self EXCEPT !.i2c = i2c1], ret |-> Ok(done.read[2])]

\* Faulty variant of product_number: a bus error re-binds the default address.
product_number_reset_on_error(self, reply) ==
    LET results == <<0, 0>>
        i2c1 == write_read_begin(self.i2c, self.address,
                                 <<PRODUCT_NUMBER_REG>>, results)
        done == write_read_end(results, reply)
    IN  IF done.res.kind = "Err"
        THEN [self |-> [address |-> DEFAULT_ADDR, i2c |-> i2c1],
              ret |-> Err(From(done.res.err))]
        ELSE [self |-> [self EXCEPT !.i2c = i2c1], ret |-> Ok(done.read[2])]

\* Blocking product_number: returns the driver after the call and the result.
product_number(self, reply) ==
    LET results == <<0, 0>>
        i2c1 == write_read_begin(self.i2c, self.address,
                                 <<PRODUCT_NUMBER_REG>>, results)
        done == write_read_end(results, reply)
        self1 == [self EXCEPT !.i2c = i2c1]
    IN  IF done.res.kind = "Err"
        THEN [self |-> self1, ret |-> Err(From(done.res.err))]
        ELSE [self |-> self1, ret |-> Ok(done.read[2])]

\* Async product_number up to its only suspension point, the transport's
\* write_read(...).await: the driver after the transaction was handed to the
\* transport, and the future's saved locals.
product_number_async_poll(self) ==
    LET results == <<0, 0>>
    IN  [self |-> [self EXCEPT !.i2c =
                      write_read_begin(self.i2c, self.address,
                                       <<PRODUCT_NUMBER_REG>>, results)],
         fut |-> [results |-> results]]

\* Faulty variant of the async product_number: returns results[0].
product_number_async_resume_first_byte(self, future, reply) ==
    LET done == write_read_end(future.results, reply)
    IN  IF done.res.kind = "Err"
        THEN [self |-> self, ret |-> Err(From(done.res.err))]
        ELSE [self |-> self, ret |-> Ok(done.read[1])]

\* Async product_number resumed after the await with the transport's reply.
product_number_async_resume(self, future, reply) ==
    LET done == write_read_end(future.results, reply)
    IN  IF done.res.kind = "Err"
        THEN [self |-> self, ret |-> Err(From(done.res.err))]
        ELSE [self |-> self, ret |-> Ok(done.read[2])]

\* ------------------------------------------------------------------- state
VARIABLES
    mode,      \* the build feature: "blocking" or "async"
    held,      \* the transport handle while the caller owns it, else NoHandle
    driver,    \* the Iqs231xDriver value, NoDriver before new and after release
    fut,       \* the suspended async product_number future, else NoFuture
    op,        \* the driver operation the caller invoked last
    ret,       \* what it returned, Pending while it is suspended
    reply,     \* what the transport answered to the last completed transaction
    ctor,      \* how the driver was constructed: [kind, addr]
    lastSet,   \* argument of the latest set_address, NoAddr if none
    all7,      \* every address argument passed so far was a 7-bit value
    calls,     \* per product_number call issued, the address the caller had
               \* established when issuing it
    lastPn,    \* "Ok"/"Err": how the latest completed product_number ended
    prevPn,    \* the same for the completed product_number before that one
    pair       \* the blocking/async pair run side by side (SpecPair only)

vars == <<mode, held, driver, fut, op, ret, reply, ctor, lastSet, all7, calls,
          lastPn, prevPn, pair>>
ghost == <<ctor, lastSet, all7, calls, lastPn, prevPn>>

NoPair == [none |-> "pair"]

\* The transport handle, wherever it currently lives.
Bus == IF driver # NoDriver THEN driver.i2c ELSE held

Alive == driver # NoDriver

\* The address the caller established last: the latest set_address argument,
\* else the constructor's (0x44 for new).
Established ==
    IF lastSet # NoAddr THEN lastSet
    ELSE IF ctor.kind = "new" THEN 68 ELSE ctor.addr

GhostInit ==
    /\ ctor = [kind |-> "none", addr |-> NoAddr]
    /\ lastSet = NoAddr
    /\ all7 = TRUE
    /\ calls = <<>>
    /\ lastPn = "none"
    /\ prevPn = "none"
Idle == Alive /\ fut = NoFuture

Init ==
    /\ mode \in {"blocking", "async"}
    /\ held \in {[id |-> h, log |-> <<>>] : h \in HandleIds}
    /\ driver = NoDriver
    /\ fut = NoFuture
    /\ op = "none"
    /\ ret = Unit
    /\ reply = NoReply
    /\ GhostInit
    /\ pair = NoPair

\* let sensor = Iqs231xDriver::new(i2c_interface);
New ==
    /\ driver = NoDriver /\ held # NoHandle /\ op = "none"
    /\ driver' = new(held)
    /\ held' = NoHandle
    /\ op' = "new"
    /\ ret' = Unit
    /\ ctor' = [kind |-> "new", addr |-> NoAddr]
    /\ UNCHANGED <<mode, fut, reply, lastSet, all7, calls, lastPn, prevPn, pair>>

\* let sensor = Iqs231xDriver::with_address(i2c_interface, addr);
WithAddress ==
    /\ driver = NoDriver /\ held # NoHandle /\ op = "none"
    /\ \E addr \in AddrInputs :
        /\ driver' = with_address(held, addr)
        /\ ctor' = [kind |-> "with_address", addr |-> addr]
        /\ all7' = (all7 /\ addr <= 127)
    /\ held' = NoHandle
    /\ op' = "with_address"
    /\ ret' = Unit
    /\ UNCHANGED <<mode, fut, reply, lastSet, calls, lastPn, prevPn, pair>>

\* sensor.set_address(addr);
SetAddress ==
    /\ Idle
    /\ \E addr \in AddrInputs :
        /\ driver' = set_address(driver, addr)
        /\ lastSet' = addr
        /\ all7' = (all7 /\ addr <= 127)
    /\ op' = "set_address"
    /\ ret' = Unit
    /\ UNCHANGED <<mode, held, fut, reply, ctor, calls, lastPn, prevPn, pair>>

\* sensor.address()
Address ==
    /\ Idle
    /\ ret' = Value(address(driver))
    /\ op' = "address"
    /\ UNCHANGED <<mode, held, driver, fut, reply, ghost, pair>>

\* sensor.release_inner()
ReleaseInner ==
    /\ Idle
    /\ held' = release_inner(driver)
    /\ driver' = NoDriver
    /\ op' = "release_inner"
    /\ ret' = Unit
    /\ UNCHANGED <<mode, fut, reply, ghost, pair>>

\* sensor.product_number() with the blocking feature.
ProductNumber ==
    /\ mode = "blocking"
    /\ Idle
    /\ Len(driver.i2c.log) < MaxCalls
    /\ \E r \in ReplySet(2) :
        LET c == product_number(driver, r)
        IN  /\ driver' = c.self
            /\ ret' = c.ret
            /\ reply' = r
            /\ lastPn' = c.ret.kind
    /\ prevPn' = lastPn
    /\ calls' = Append(calls, Established)
    /\ op' = "product_number"
    /\ UNCHANGED <<mode, held, fut, ctor, lastSet, all7, pair>>

\* sensor.product_number().await with the async feature, first poll: runs to
\* the transport's await and suspends.
ProductNumberPoll ==
    /\ mode = "async"
    /\ Idle
    /\ Len(driver.i2c.log) < MaxCalls
    /\ LET c == product_number_async_poll(driver)
       IN  /\ driver' = c.self
           /\ fut' = c.fut
    /\ calls' = Append(calls, Established)
    /\ op' = "product_number"
    /\ ret' = Pending
    /\ UNCHANGED <<mode, held, reply, ctor, lastSet, all7, lastPn, prevPn, pair>>

\* The transport completes and the suspended call is resumed.
ProductNumberResume ==
    /\ mode = "async"
    /\ Alive /\ fut # NoFuture
    /\ \E r \in ReplySet(Len(fut.results)) :
        LET c == product_number_async_resume(driver, fut, r)
        IN  /\ driver' = c.self
            /\ ret' = c.ret
            /\ reply' = r
            /\ lastPn' = c.ret.kind
    /\ prevPn' = lastPn
    /\ fut' = NoFuture
    /\ UNCHANGED <<mode, held, op, ctor, lastSet, all7, calls, pair>>

Next ==
    \/ New
    \/ WithAddress
    \/ SetAddress
    \/ Address
    \/ ReleaseInner
    \/ ProductNumber
    \/ ProductNumberPoll
    \/ ProductNumberResume

Spec == Init /\ [][Next]_vars

\* ------------------------------------------------ the blocking/async pair
\* One caller drives a blocking driver and an async driver, each over its own
\* transport, with the same sequence of calls; the two transports behave
\* identically: the k-th transaction gets the same reply on both.
\* pair.script  the calls issued so far (whichever driver is ahead extends it)
\* pair.replies the replies of the transports, by transaction number
\* pair.b, pair.a the blocking and the async side: driver, calls completed,
\*              results returned, and (async) the suspended future.
PairAddrs == {69, 128}
PairOps ==
    {[name |-> "set_address", arg |-> a] : a \in PairAddrs}
    \cup {[name |-> n, arg |-> NoAddr] :
             n \in {"address", "product_number", "release_inner"}}

PairInit ==
    /\ mode = "both"
    /\ held = NoHandle
    /\ driver = NoDriver
    /\ fut = NoFuture
    /\ op = "none"
    /\ ret = Unit
    /\ reply = NoReply
    /\ GhostInit
    /\ \E d \in {new([id |-> 1, log |-> <<>>])}
              \cup {with_address([id |-> 1, log |-> <<>>], a) : a \in PairAddrs} :
          pair = [script |-> <<>>, replies |-> <<>>,
                  b |-> [drv |-> d, rets |-> <<>>],
                  a |-> [drv |-> d, rets |-> <<>>, fut |-> NoFuture]]

\* The call a side that has completed n calls issues next: the recorded one,
\* or a new one when this side is ahead.
PairCall(n, o) ==
    IF n < Len(pair.script) THEN o = pair.script[n + 1]
    ELSE /\ Len(pair.script) < MaxPairCalls
         /\ o \in PairOps
PairScript(n, o) ==
    IF n < Len(pair.script) THEN pair.script ELSE Append(pair.script, o)

\* The reply of a transport to its k-th transaction.
PairReply(k, r) ==
    IF k <= Len(pair.replies) THEN r = pair.replies[k] ELSE r \in ReplySet(2)
PairReplies(k, r) ==
    IF k <= Len(pair.replies) THEN pair.replies ELSE Append(pair.replies, r)

\* A call other than product_number, applied to a driver: [self, ret].
PairApply(self, o) ==
    CASE o.name = "set_address" ->
            [self |-> set_address(self, o.arg), ret |-> Unit]
      [] o.name = "address" ->
            [self |-> self, ret |-> Value(address(self))]
      [] o.name = "release_inner" ->
            [self |-> NoDriver, ret |-> release_inner(self)]

\* The blocking driver executes its next call.
PairBlocking ==
    /\ pair.b.drv # NoDriver
    /\ \E o \in PairOps :
        /\ PairCall(Len(pair.b.rets), o)
        /\ IF o.name = "product_number"
           THEN \E r \in ReplySet(2) :
                  /\ PairReply(Len(pair.b.drv.i2c.log) + 1, r)
                  /\ LET c == product_number(pair.b.drv, r)
                     IN  pair' = [pair EXCEPT
                            !.script = PairScript(Len(pair.b.rets), o),
                            !.replies = PairReplies(Len(pair.b.drv.i2c.log) + 1, r),
                            !.b = [drv |-> c.self, rets |-> Append(@.rets, c.ret)]]
           ELSE LET c == PairApply(pair.b.drv, o)
                IN  pair' = [pair EXCEPT
                       !.script = PairScript(Len(pair.b.rets), o),
                       !.b = [drv |-> c.self, rets |-> Append(@.rets, c.ret)]]
    /\ UNCHANGED <<mode, held, driver, fut, op, ret, reply, ghost>>

\* The async driver executes its next call, up to the await for product_number.
PairAsync ==
    /\ pair.a.drv # NoDriver /\ pair.a.fut = NoFuture
    /\ \E o \in PairOps :
        /\ PairCall(Len(pair.a.rets), o)
        /\ IF o.name = "product_number"
           THEN LET c == product_number_async_poll(pair.a.drv)
                IN  pair' = [pair EXCEPT
                       !.script = PairScript(Len(pair.a.rets), o),
                       !.a = [@ EXCEPT !.drv = c.self, !.fut = c.fut]]
           ELSE LET c == PairApply(pair.a.drv, o)
                IN  pair' = [pair EXCEPT
                       !.script = PairScript(Len(pair.a.rets), o),
                       !.a = [@ EXCEPT !.drv = c.self,
                                       !.rets = Append(@, c.ret)]]
    /\ UNCHANGED <<mode, held, driver, fut, op, ret, reply, ghost>>

\* The async driver's transport completes and the call is resumed.
PairAsyncResume ==
    /\ pair.a.drv # NoDriver /\ pair.a.fut # NoFuture
    /\ \E r \in ReplySet(Len(pair.a.fut.results)) :
        /\ PairReply(Len(pair.a.drv.i2c.log), r)
        /\ LET c == product_number_async_resume(pair.a.drv, pair.a.fut, r)
           IN  pair' = [pair EXCEPT
                  !.replies = PairReplies(Len(pair.a.drv.i2c.log), r),
                  !.a = [drv |-> c.self, rets |-> Append(@.rets, c.ret),
                         fut |-> NoFuture]]
    /\ UNCHANGED <<mode, held, driver, fut, op, ret, reply, ghost>>

PairNext ==
    \/ PairBlocking
    \/ PairAsync
    \/ PairAsyncResume

SpecPair == PairInit /\ [][PairNext]_vars

\* ============================================================ properties
\* The transaction product_number is specified to issue to address addr.
Transaction(addr) == [address |-> addr, write |-> <<0>>, read_len |-> 2]

\* The result product_number is specified to give for transport reply r.
Expected(r) ==
    IF r.ok THEN Ok(r.buf[2])
    ELSE Err([variant |-> "I2CError", value |-> r.err])

\* C1: whenever the transport observes something new, it is exactly one more
\* write_read, addressed to the address the caller had established at that
\* moment (so a set_address between two reads retargets the next read), writing
\* the single byte 0x00 and reading 2 bytes.
C1_SingleWriteRead ==
    [][Bus'.log # Bus.log =>
          /\ Alive
          /\ Bus'.log = Append(Bus.log, Transaction(Established))]_vars

\* Two reads with a set_address between them went to two different targets.
C1_Witness ==
    /\ Len(Bus.log) = 2
    /\ Bus.log[1].address = 68
    /\ Bus.log[2].address = 128
    /\ op = "product_number" /\ ret.kind = "Ok"

\* C2: when the transport completes the write_read with bytes [b0, b1],
\* product_number returns Ok(b1), whatever b0 is.
C2_SecondByte ==
    (op = "product_number" /\ ret # Pending /\ reply.ok)
        => ret = Ok(reply.buf[2])

\* The repository's test vector: the device answers [0x00, 0x40].
C2_Witness ==
    /\ op = "product_number" /\ ret # Pending
    /\ reply.ok /\ reply.buf = <<0, 64>>
    /\ ret = Ok(64)

\* C3: when the transport fails the write_read with error E, product_number
\* returns Err(I2CError(E)) with that very E, never an Ok value, whatever the
\* read buffer holds.
C3_ErrorWrapped ==
    (op = "product_number" /\ ret # Pending /\ ~reply.ok)
        => ret = Err([variant |-> "I2CError", value |-> reply.err])

\* A failed transaction that left bytes in the read buffer.
C3_Witness ==
    /\ op = "product_number" /\ ret # Pending
    /\ ~reply.ok /\ reply.buf = <<64, 64>> /\ reply.err = "ArbitrationLoss"
    /\ ret.kind = "Err"

\* C5: the bound address, and what address() returns, is the address
\* established last: the latest set_address argument, else the constructor's
\* (0x44 for new); product_number calls never change it.
C5_LastAddressWins ==
    /\ Alive => driver.address = Established
    /\ op = "address" => ret = Value(Established)

\* address() after with_address(0x45), a failed read and set_address(0x80).
C5_Witness ==
    /\ op = "address" /\ ret = Value(128)
    /\ ctor = [kind |-> "with_address", addr |-> 69]
    /\ lastPn = "Err"

\* C6: new, with_address, set_address and address leave the transport handle
\* as it was, and address leaves the driver as it was.
C6_NoBusEffect ==
    [][op' \in {"new", "with_address", "set_address", "address"} =>
          /\ Bus' = Bus
          /\ op' = "address" => driver' = driver]_vars

\* set_address on a driver whose transport has already seen transactions.
C6_Witness ==
    /\ op = "set_address" /\ Alive
    /\ Len(Bus.log) = 2

\* C7: release_inner can be applied whenever the driver exists and no call is
\* in progress; it returns the handle given at construction, with exactly the
\* transactions issued through the driver; afterwards there is no driver and no
\* further operation.
C7_Release ==
    /\ [](Idle => ENABLED ReleaseInner)
    /\ [](op = "release_inner" =>
            /\ ~Alive
            /\ ~ENABLED Next
            /\ held.log = [i \in 1..Len(calls) |-> Transaction(calls[i])])
    /\ [][op' = "release_inner" => Alive /\ held' = driver.i2c]_vars
    /\ [][Bus'.id = Bus.id]_vars

\* Released right after construction, with no operation issued.
C7_Witness ==
    /\ op = "release_inner"
    /\ held = [id |-> 2, log |-> <<>>]
    /\ calls = <<>> /\ lastSet = NoAddr

\* C8, as stated: the bound address, and every transaction's target, is a
\* 7-bit value whatever was passed to with_address and set_address.
C8_SevenBit ==
    /\ Alive => driver.address \in 0..127
    /\ \A i \in 1..Len(Bus.log) : Bus.log[i].address \in 0..127

\* C8, amended: the bound address and every target is a u8, stored as passed;
\* it is a 7-bit value as long as every address passed was one.
C8_AsPassed ==
    /\ Alive => /\ driver.address \in U8
                /\ all7 => driver.address \in 0..127
    /\ \A i \in 1..Len(Bus.log) :
          /\ Bus.log[i].address \in U8
          /\ all7 => Bus.log[i].address \in 0..127

\* A 7-bit address was bound and read from (and only 7-bit ones were passed).
C8_Witness ==
    /\ Alive /\ all7 /\ driver.address = 127
    /\ Len(Bus.log) > 0 /\ Bus.log[Len(Bus.log)].address = 127

\* C9: the transport has observed exactly one transaction per product_number
\* call issued, failed or not, in the order of the calls.
C9_OneTransactionPerCall ==
    /\ Len(Bus.log) = Len(calls)
    /\ \A i \in 1..Len(calls) : Bus.log[i].address = calls[i]

\* Two calls to different addresses, the first failed, the second succeeded.
C9_Witness ==
    /\ Len(calls) = 2 /\ calls[1] # calls[2]
    /\ prevPn = "Err" /\ lastPn = "Ok"
    /\ op = "product_number"

\* C10: after a failed product_number the driver exists with its address
\* unchanged and accepts every operation; a later product_number issues one
\* fresh transaction to the established address and its result is decided by
\* that transaction's reply alone.
C10_FailureLeavesNoTrace ==
    /\ []((op = "product_number" /\ ret.kind = "Err") =>
            /\ Alive /\ driver.address = Established
            /\ ENABLED SetAddress /\ ENABLED Address /\ ENABLED ReleaseInner
            /\ Len(calls) < MaxCalls =>
                  ENABLED (ProductNumber \/ ProductNumberPoll))
    /\ [][(lastPn = "Err" /\ op' = "product_number" /\ ret' # Pending) =>
            /\ ret' = Expected(reply')
            /\ Alive' /\ driver'.address = Established
            /\ Bus'.log = [i \in 1..Len(calls') |-> Transaction(calls'[i])]]_vars

\* A successful read right after a failed one.
C10_Witness ==
    /\ op = "product_number" /\ ret = Ok(64)
    /\ prevPn = "Err" /\ lastPn = "Ok"

\* The transactions a side of the pair has issued (after release_inner, those
\* the returned handle carries).
PairLog(side) ==
    IF side.drv # NoDriver THEN side.drv.i2c.log
    ELSE side.rets[Len(side.rets)].log

PairMin(x, y) == IF x < y THEN x ELSE y

\* C4: over the same call sequence and identically behaving transports, the
\* blocking and the async driver return the same result for every call both
\* have completed, have issued the same transactions, and are in the same
\* state whenever they have completed the same calls.
C4_Parity ==
    LET b == pair.b
        a == pair.a
    IN  /\ \A i \in 1..PairMin(Len(b.rets), Len(a.rets)) : b.rets[i] = a.rets[i]
        /\ \A i \in 1..PairMin(Len(PairLog(b)), Len(PairLog(a))) :
              PairLog(b)[i] = PairLog(a)[i]
        /\ (Len(b.rets) = Len(a.rets) /\ a.fut = NoFuture) => b.drv = a.drv

\* Both sides went through set_address(0x80), a failed read and a good read.
C4_Witness ==
    /\ Len(pair.script) = 3
    /\ pair.script[1] = [name |-> "set_address", arg |-> 128]
    /\ pair.script[2].name = "product_number"
    /\ pair.script[3].name = "product_number"
    /\ Len(pair.b.rets) = 3 /\ Len(pair.a.rets) = 3
    /\ pair.b.rets[2].kind = "Err" /\ pair.a.rets[3] = Ok(64)

====
